---- MODULE Spec2Model ----
(***************************************************************************)
(* Model of dippy_validation_api/validation_api.py: the submission gateway *)
(* (evaluate_model), the evaluation worker (model_evaluation_worker /      *)
(* evaluate_model_logic), the periodic persister, the shutdown code of     *)
(* __main__ and the shared leaderboard held in a multiprocessing Manager   *)
(* Namespace.                                                              *)
(*                                                                         *)
(* Granularity: every read of namespace.leaderboard returns a pickled COPY *)
(* of the table and every assignment to it replaces the whole table; each  *)
(* such proxy call is one atomic step.  The save_leaderboard call that     *)
(* follows an assignment is part of the step of the assignment, and one    *)
(* tick of the persister (read the table, write the file) is one step: the *)
(* file is only ever written, so it is always a snapshot of the table.     *)
(* Sizes are counted in MiB so that they fit the checker's integers;       *)
(* scores are counted in hundredths.                                       *)
(***************************************************************************)
EXTENDS Integers, Sequences, FiniteSets, TLC

\* ------------------------------------------------------------ bounds
NumThreads == 2
MaxSubmits == 2

Threads == 1..NumThreads

\* ------------------------------------------------- program constants
MIN_REPO_SIZE == 10
MAX_REPO_SIZE == 80 * 1024
MAX_MODEL_SIZE == 30 * 1024
Deadline == 30
RetrySleep == 1
MODEL_SIZE_SCORE_WEIGHT == 6
QUALITATIVE_SCORE_WEIGHT == 82
LATENCY_SCORE_WEIGHT == 6
VIBE_SCORE_WEIGHT == 6
Sentinel == -100

chat_template_mappings ==
    {"vicuna", "chatml", "mistral", "zephyr", "alpaca", "llama2", "llama3"}

\* ------------------------------------------------------------ values
NoneV == [tag |-> "None", v |-> 0]
RaiseV == [tag |-> "raise", v |-> 0]
IntV(n) == [tag |-> "int", v |-> n]

\* A size in bytes, too large for one machine integer of the checker: v MiB
\* and b bytes, 0 <= b < MiB.
MiB == 1024 * 1024
Bytes(v, b) == [tag |-> "int", v |-> v, b |-> b]

\* size // 4
FloorDiv4(size) ==
    Bytes(size.v \div 4, ((size.v % 4) * MiB + size.b) \div 4)

\* size > limit and size < limit, for a limit of whole MiB
Greater(size, limit) == size.v > limit \/ (size.v = limit /\ size.b > 0)
Less(size, limit) == size.v < limit

Digits == {"0", "1", "2", "3", "4", "5", "6", "7", "8", "9"}

DigitVal(c) ==
    CASE c = "0" -> 0 [] c = "1" -> 1 [] c = "2" -> 2 [] c = "3" -> 3
      [] c = "4" -> 4 [] c = "5" -> 5 [] c = "6" -> 6 [] c = "7" -> 7
      [] c = "8" -> 8 [] c = "9" -> 9

\* int(request.hash): a string of decimal digits parses to its value, leading
\* zeros included; anything else raises ValueError.
IsNumeric(s) == Len(s) > 0 /\ \A i \in 1..Len(s) : s[i] \in Digits

RECURSIVE IntOf(_)
IntOf(s) ==
    IF Len(s) = 0 THEN 0
    ELSE 10 * IntOf(SubSeq(s, 1, Len(s) - 1)) + DigitVal(s[Len(s)])

NameIdx(n) == IF n = "m1" THEN 0 ELSE 1
TemplateIdx(t) == IF t = "chatml" THEN 0 ELSE 1
CompIdx(c) == IF c = "d1" THEN 0 ELSE 1

\* utilities.validation_utils.regenerate_hash: a deterministic fingerprint of
\* the four identity fields, injective on the identities of the model.
regenerate_hash(repo_namespace, repo_name, chat_template_type, competition_id) ==
    1 + NameIdx(repo_name) + 2 * TemplateIdx(chat_template_type)
      + 4 * CompIdx(competition_id)

Req(h, name, tmpl) ==
    [hash |-> h, repo_namespace |-> "org", repo_name |-> name,
     chat_template_type |-> tmpl, competition_id |-> "d1"]

\* The requests a caller may send: two well-formed ones, the first again with
\* a leading zero in its hash text, one with an unsupported template, one whose
\* hash is another model's fingerprint and one whose hash is not a number.
Requests ==
    {Req(<<"1">>, "m1", "chatml"),
     Req(<<"2">>, "m2", "chatml"),
     Req(<<"0", "1">>, "m1", "chatml"),
     Req(<<"3">>, "m1", "bogus"),
     Req(<<"2">>, "m1", "chatml"),
     Req(<<"x">>, "m1", "chatml")}

NoReq == Req(<<>>, "", "")

\* ------------------------------------------------------ leaderboard
NewEntry(r) ==
    [hash |-> r.hash, repo_namespace |-> r.repo_namespace,
     repo_name |-> r.repo_name, chat_template_type |-> r.chat_template_type,
     model_size_score |-> Sentinel, qualitative_score |-> Sentinel,
     latency_score |-> Sentinel, vibe_score |-> Sentinel,
     total_score |-> Sentinel, status |-> "QUEUED", notes |-> ""]

HasHash(lb, h) == \E i \in 1..Len(lb) : lb[i].hash = h

\* leaderboard.loc[leaderboard['hash'] == hash, 'status'] = status, and the
\* notes when they are not empty: every row with that hash is changed.
SetStatus(lb, h, status, notes) ==
    [i \in 1..Len(lb) |->
        IF lb[i].hash = h
        THEN [lb[i] EXCEPT !.status = status,
                           !.notes = IF notes # "" THEN notes ELSE @]
        ELSE lb[i]]

FirstIdx(lb, h) == CHOOSE i \in 1..Len(lb) :
    lb[i].hash = h /\ \A j \in 1..(i - 1) : lb[j].hash # h

NoResult == [kind |-> "none", status |-> "", score |-> <<>>]
HttpError(code) == [kind |-> code, status |-> "", score |-> <<>>]
NullResult == [kind |-> "null", status |-> "", score |-> <<>>]

Payload(row) ==
    [kind |-> "payload", status |-> row.status,
     score |-> <<row.model_size_score, row.qualitative_score,
                 row.latency_score, row.vibe_score, row.total_score>>]

get_json_result(lb, h) ==
    IF HasHash(lb, h) THEN Payload(lb[FirstIdx(lb, h)]) ELSE NullResult

RECURSIVE DropStatus(_, _)
DropStatus(lb, status) ==
    IF Len(lb) = 0 THEN <<>>
    ELSE IF Head(lb).status = status THEN DropStatus(Tail(lb), status)
    ELSE <<Head(lb)>> \o DropStatus(Tail(lb), status)

\* ------------------------------------------------------------- state
VARIABLES
    ns,          \* namespace.leaderboard, the shared table
    file,        \* leaderboard.csv
    queue,       \* evaluation_queue
    event,       \* periodic_save_event
    gw,          \* per request thread of the API server
    wk,          \* the evaluation worker process
    ps,          \* the periodic save process
    sd,          \* the main process around uvicorn.run and its finally block
    submitted,   \* number of requests received so far
    hist         \* history: what was enqueued, restarts sent, scoring calls

vars == <<ns, file, queue, event, gw, wk, ps, sd, submitted, hist>>

TERM == NoReq

GwIdle ==
    [pc |-> "idle", req |-> NoReq, lb |-> <<>>, note |-> "", size |-> NoneV,
     result |-> NoResult]

NoResp == [got |-> FALSE, truthy |-> FALSE, content |-> ""]

NoScores ==
    [missing |-> TRUE, eval_score |-> NoneV, latency_score |-> NoneV,
     model_size_score |-> NoneV]

WkIdle ==
    [pc |-> "get", req |-> NoReq, lb |-> <<>>, phase |-> "", elapsed |-> 0,
     resp |-> NoResp, err |-> "", last |-> "", data |-> NoScores,
     vibe |-> NoneV, vibeMissing |-> FALSE, outcome |-> "",
     restartsA |-> 0, restartsB |-> 0, calledB |-> FALSE]

\* columns = [...] of __main__: the schema of the leaderboard file.
Schema ==
    {"hash", "repo_namespace", "repo_name", "chat_template_type",
     "model_size_score", "qualitative_score", "latency_score", "vibe_score",
     "total_score", "timestamp", "status", "notes"}

Init ==
    /\ ns = <<>>
    /\ file = <<>>
    /\ queue = <<>>
    /\ event = FALSE
    /\ gw = [t \in Threads |-> GwIdle]
    /\ wk = WkIdle
    /\ ps = [pc |-> "loop"]
    /\ sd = [pc |-> "serving", lb |-> <<>>, terminal |-> {}, deq |-> 0,
             exists |-> TRUE, columns |-> Schema]
    /\ submitted = 0
    /\ hist = [enq |-> <<>>, deq |-> 0, ins |-> <<>>]

\* ThreadSafeLeaderboardManager: __init__ makes a new multiprocessing.Lock()
\* and every `with ThreadSafeLeaderboardManager(namespace)` makes a new
\* manager, so __enter__ acquires a lock that no other block can hold: it
\* never waits, whoever else is inside a block.
CanEnter(others) == TRUE

\* The request threads inside a `with` block.
GwInside == {t \in Threads : gw[t].pc \in {"lookup", "insert", "fail_write", "fail_return"}}

\* The other contexts inside a `with` block: the worker, the main process.
Inside ==
    {<<"gw", t>> : t \in GwInside}
      \cup (IF wk.pc \in {"run_read", "run_write", "fail_write", "partial_write",
                          "final_write"}
            THEN {<<"wk", 0>>} ELSE {})
      \cup (IF sd.pc \in {"prune_write", "last_write"} THEN {<<"sd", 0>>} ELSE {})

\* ----------------------------------------------------------- gateway
\* What the repository lookups of one call may answer: a failure, or the
\* smallest sizes that pass.
CoarseRepoSizes == {RaiseV, Bytes(MIN_REPO_SIZE, 0)}
CoarseModelSizes == {RaiseV, Bytes(4 * MAX_MODEL_SIZE, 0)}

\* The failure_notes of the checks made on the result of get_model_size.
SizeNotes == {"Error getting model size", "Model size is too large"}

\* The admission checks with a size check that divides exactly:
\* (model_size / 4) > MAX_MODEL_SIZE.
AdmissionNotesTrueDiv(r, repo, size) ==
    IF r.chat_template_type \notin chat_template_mappings
        THEN "Chat template type not supported"
    ELSE IF repo.tag = "None" THEN "Error checking model repo size"
    ELSE IF repo.tag = "raise" THEN "Error checking model repo size: e"
    ELSE IF Greater(repo, MAX_REPO_SIZE) \/ Less(repo, MIN_REPO_SIZE)
        THEN "Model repo size is not up to requirments"
    ELSE IF size.tag = "raise" THEN "raise"
    ELSE IF size.tag = "None" THEN "Error getting model size"
    ELSE IF Greater(size, 4 * MAX_MODEL_SIZE)
        THEN "Model size is too large"
    ELSE ""

\* The admission checks of evaluate_model, in the order of the code: the
\* failure_notes of the first check that fails, "" when all pass, "raise"
\* when get_model_size raises (the exception leaves the handler).
AdmissionNotes(r, repo, size) ==
    IF r.chat_template_type \notin chat_template_mappings
        THEN "Chat template type not supported"
    ELSE IF repo.tag = "None" THEN "Error checking model repo size"
    ELSE IF repo.tag = "raise" THEN "Error checking model repo size: e"
    ELSE IF Greater(repo, MAX_REPO_SIZE) \/ Less(repo, MIN_REPO_SIZE)
        THEN "Model repo size is not up to requirments"
    ELSE IF size.tag = "raise" THEN "raise"
    ELSE IF size.tag = "None" THEN "Error getting model size"
    ELSE IF Greater(FloorDiv4(size), MAX_MODEL_SIZE)
        THEN "Model size is too large"
    ELSE ""

\* A gateway that takes the caller's hash as it comes.
HashMatchesUnchecked(r) == TRUE

\* if int(request.hash) != regenerate_hash(...): raise HTTPException(400)
HashMatches(r) ==
    IntOf(r.hash) = regenerate_hash(r.repo_namespace, r.repo_name,
                                    r.chat_template_type, r.competition_id)

Serving == sd.pc = "serving"

\* A request whose hash text is not a number: int() raises, the call fails.
SubmitNotNumeric(t, r, limit) ==
    /\ Serving /\ submitted < limit
    /\ gw[t].pc = "idle"
    /\ ~IsNumeric(r.hash)
    /\ gw' = [gw EXCEPT ![t] = [GwIdle EXCEPT !.pc = "responded", !.req = r,
                                               !.result = HttpError("http500")]]
    /\ submitted' = submitted + 1
    /\ UNCHANGED <<ns, file, queue, event, wk, ps, sd, hist>>

SubmitMismatch(t, r, limit) ==
    /\ Serving /\ submitted < limit
    /\ gw[t].pc = "idle"
    /\ IsNumeric(r.hash) /\ ~HashMatches(r)
    /\ gw' = [gw EXCEPT ![t] = [GwIdle EXCEPT !.pc = "responded", !.req = r,
                                               !.result = HttpError("http400")]]
    /\ submitted' = submitted + 1
    /\ UNCHANGED <<ns, file, queue, event, wk, ps, sd, hist>>

SubmitVerified(t, r, limit) ==
    /\ Serving /\ submitted < limit
    /\ gw[t].pc = "idle"
    /\ IsNumeric(r.hash) /\ HashMatches(r)
    /\ gw' = [gw EXCEPT ![t] = [GwIdle EXCEPT !.pc = "enter", !.req = r]]
    /\ submitted' = submitted + 1
    /\ UNCHANGED <<ns, file, queue, event, wk, ps, sd, hist>>

\* with ThreadSafeLeaderboardManager(app.state.ns) as leaderboard
GwEnter(t) ==
    /\ gw[t].pc = "enter"
    /\ CanEnter(Inside)
    /\ gw' = [gw EXCEPT ![t].pc = "lookup", ![t].lb = ns]
    /\ UNCHANGED <<ns, file, queue, event, wk, ps, sd, submitted, hist>>

\* current_status = get_json_result(app.state.ns, request.hash), not None:
\* the block is left and the status returned.
GwLookupFound(t) ==
    /\ gw[t].pc = "lookup"
    /\ HasHash(ns, gw[t].req.hash)
    /\ gw' = [gw EXCEPT ![t].pc = "responded", ![t].lb = <<>>,
                         ![t].result = get_json_result(ns, gw[t].req.hash)]
    /\ UNCHANGED <<ns, file, queue, event, wk, ps, sd, submitted, hist>>

GwLookupAbsent(t) ==
    /\ gw[t].pc = "lookup"
    /\ ~HasHash(ns, gw[t].req.hash)
    /\ gw' = [gw EXCEPT ![t].pc = "insert"]
    /\ UNCHANGED <<ns, file, queue, event, wk, ps, sd, submitted, hist>>

\* app.state.ns.leaderboard = pd.concat([new_entry, leaderboard])
GwInsert(t) ==
    /\ gw[t].pc = "insert"
    /\ ns' = <<NewEntry(gw[t].req)>> \o gw[t].lb
    /\ file' = ns'
    /\ hist' = [hist EXCEPT !.ins = Append(@, gw[t].req.hash)]
    /\ gw' = [gw EXCEPT ![t].pc = "admit", ![t].lb = <<>>]
    /\ UNCHANGED <<queue, event, wk, ps, sd, submitted>>

\* The admission checks, outside any block; all pass.
GwAdmitPass(t, repos, sizes) ==
    /\ gw[t].pc = "admit"
    /\ \E repo \in repos, size \in sizes :
          /\ AdmissionNotes(gw[t].req, repo, size) = ""
          /\ gw' = [gw EXCEPT ![t].pc = "put", ![t].size = size]
    /\ UNCHANGED <<ns, file, queue, event, wk, ps, sd, submitted, hist>>

\* One of the checks fails: the handler enters a block and
\* update_leaderboard_status reads the table.
GwAdmitFail(t, repos, sizes) ==
    /\ gw[t].pc = "admit"
    /\ \E repo \in repos, size \in sizes :
          LET n == AdmissionNotes(gw[t].req, repo, size) IN
          /\ n \notin {"", "raise"}
          /\ gw' = [gw EXCEPT ![t].pc = "fail_read", ![t].note = n,
                               ![t].size = IF n \in SizeNotes THEN size ELSE @]
    /\ UNCHANGED <<ns, file, queue, event, wk, ps, sd, submitted, hist>>

\* get_model_size raises: no handler catches it, the call fails.
GwAdmitRaise(t, repos, sizes) ==
    /\ gw[t].pc = "admit"
    /\ \E repo \in repos, size \in sizes :
          AdmissionNotes(gw[t].req, repo, size) = "raise"
    /\ gw' = [gw EXCEPT ![t].pc = "responded",
                         ![t].result = HttpError("http500")]
    /\ UNCHANGED <<ns, file, queue, event, wk, ps, sd, submitted, hist>>

GwFailRead(t) ==
    /\ gw[t].pc = "fail_read"
    /\ CanEnter(Inside)
    /\ gw' = [gw EXCEPT ![t].pc = "fail_write", ![t].lb = ns]
    /\ UNCHANGED <<ns, file, queue, event, wk, ps, sd, submitted, hist>>

GwFailWrite(t) ==
    /\ gw[t].pc = "fail_write"
    /\ ns' = SetStatus(gw[t].lb, gw[t].req.hash, "FAILED", gw[t].note)
    /\ file' = ns'
    /\ gw' = [gw EXCEPT ![t].pc = "fail_return", ![t].lb = <<>>]
    /\ UNCHANGED <<queue, event, wk, ps, sd, submitted, hist>>

GwFailReturn(t) ==
    /\ gw[t].pc = "fail_return"
    /\ gw' = [gw EXCEPT ![t].pc = "responded", ![t].lb = <<>>,
                         ![t].result = get_json_result(ns, gw[t].req.hash)]
    /\ UNCHANGED <<ns, file, queue, event, wk, ps, sd, submitted, hist>>

\* evaluation_queue.put(request)
GwPut(t) ==
    /\ gw[t].pc = "put"
    /\ queue' = Append(queue, gw[t].req)
    /\ hist' = [hist EXCEPT !.enq = Append(@, gw[t].req.hash)]
    /\ gw' = [gw EXCEPT ![t].pc = "return"]
    /\ UNCHANGED <<ns, file, event, wk, ps, sd, submitted>>

GwReturn(t) ==
    /\ gw[t].pc = "return"
    /\ CanEnter(Inside)
    /\ gw' = [gw EXCEPT ![t].pc = "responded", ![t].lb = <<>>,
                         ![t].result = get_json_result(ns, gw[t].req.hash)]
    /\ UNCHANGED <<ns, file, queue, event, wk, ps, sd, submitted, hist>>

\* The response has been sent; the thread is free for the next request.
GwDone(t) ==
    /\ gw[t].pc = "responded"
    /\ gw' = [gw EXCEPT ![t] = GwIdle]
    /\ UNCHANGED <<ns, file, queue, event, wk, ps, sd, submitted, hist>>

\* ------------------------------------------------------------ worker
Cap == Deadline + 1
Clock(n) == IF n > Cap THEN Cap ELSE n

\* How long one POST to a scoring service may take, in seconds.
CallDurations == {0, Deadline - 1}
SlowCalls == {Deadline}

\* The outcomes of one POST that the conditions of the retry loop tell apart:
\* status 200; another status below 400 (the Response object is truthy); a
\* status of 400 or more (the Response object is falsy); no response at all.
FailKinds == {"soft", "hard", "exc"}

RespOf(kind, old) ==
    IF kind = "exc" THEN old
    ELSE [got |-> TRUE, truthy |-> (kind = "soft"), content |-> "body"]

\* The exception e of a failed attempt.
ExcText(kind) == IF kind = "exc" THEN "ConnectionError" ELSE "status error: body"

\* f"... with message: {response.content if response else e}"
ErrorString(phase, resp, e) ==
    LET text == IF resp.got /\ resp.truthy THEN resp.content ELSE e IN
    CASE phase = "A" /\ text = "body" -> "eval_score: body"
      [] phase = "A" /\ text = "status error: body" -> "eval_score: status error: body"
      [] phase = "A" /\ text = "ConnectionError" -> "eval_score: ConnectionError"
      [] phase = "B" /\ text = "body" -> "vibe_score: body"
      [] phase = "B" /\ text = "status error: body" -> "vibe_score: status error: body"
      [] phase = "B" /\ text = "ConnectionError" -> "vibe_score: ConnectionError"

\* eval_score_response.json(): the three scores, or a body that lacks a key.
EvalData(missing, e, l, m) ==
    [missing |-> missing, eval_score |-> e, latency_score |-> l,
     model_size_score |-> m]

EvalBodies ==
    {EvalData(FALSE, IntV(50), IntV(100), IntV(100)),
     EvalData(FALSE, NoneV, IntV(100), IntV(100)),
     EvalData(TRUE, NoneV, NoneV, NoneV)}

CoarseEvalBodies ==
    {EvalData(FALSE, IntV(50), IntV(100), IntV(100)),
     EvalData(FALSE, NoneV, IntV(100), IntV(100))}

VibeData(missing, v) == [missing |-> missing, vibe_score |-> v]

VibeBodies == {VibeData(FALSE, IntV(50)), VibeData(FALSE, NoneV),
               VibeData(TRUE, NoneV)}

CoarseVibeBodies == {VibeData(FALSE, IntV(50)), VibeData(FALSE, NoneV)}

HasNone(d) ==
    \/ d.eval_score.tag = "None"
    \/ d.latency_score.tag = "None"
    \/ d.model_size_score.tag = "None"

\* The weighted sum of the four scores, in hundredths.
TotalScore(m, q, l, v) ==
    (m * MODEL_SIZE_SCORE_WEIGHT + q * QUALITATIVE_SCORE_WEIGHT
       + l * LATENCY_SCORE_WEIGHT + v * VIBE_SCORE_WEIGHT) \div 100

\* The three partial scores and the progress note, on every row of the hash.
SetPartial(lb, h, d) ==
    [i \in 1..Len(lb) |->
        IF lb[i].hash = h
        THEN [lb[i] EXCEPT !.model_size_score = d.model_size_score.v,
                           !.qualitative_score = d.eval_score.v,
                           !.latency_score = d.latency_score.v,
                           !.notes = "Now computing vibe score"]
        ELSE lb[i]]

\* The final update: four scores, the total, COMPLETED, notes cleared.
SetCompleted(lb, h, d, v) ==
    [i \in 1..Len(lb) |->
        IF lb[i].hash = h
        THEN [lb[i] EXCEPT !.model_size_score = d.model_size_score.v,
                           !.qualitative_score = d.eval_score.v,
                           !.latency_score = d.latency_score.v,
                           !.vibe_score = v.v,
                           !.total_score =
                               TotalScore(d.model_size_score.v, d.eval_score.v,
                                          d.latency_score.v, v.v),
                           !.status = "COMPLETED",
                           !.notes = ""]
        ELSE lb[i]]
Hash == wk.req.hash

\* request = evaluation_queue.get(), a job
WkGetJob ==
    /\ wk.pc = "get"
    /\ queue # <<>> /\ Head(queue) # TERM
    /\ wk' = [WkIdle EXCEPT !.pc = "enter", !.req = Head(queue)]
    /\ queue' = Tail(queue)
    /\ hist' = [hist EXCEPT !.deq = @ + 1]
    /\ UNCHANGED <<ns, file, event, gw, ps, sd, submitted>>

\* request is None: break
WkGetTerm ==
    /\ wk.pc = "get"
    /\ queue # <<>> /\ Head(queue) = TERM
    /\ wk' = [WkIdle EXCEPT !.pc = "exited"]
    /\ queue' = Tail(queue)
    /\ UNCHANGED <<ns, file, event, gw, ps, sd, submitted, hist>>

\* The block is entered and the hash is not in the table: ValueError.
WkEnterMissing ==
    /\ wk.pc = "enter"
    /\ CanEnter(Inside)
    /\ ~HasHash(ns, Hash)
    /\ wk' = [wk EXCEPT !.pc = "cleanup", !.outcome = "raised"]
    /\ UNCHANGED <<ns, file, queue, event, gw, ps, sd, submitted, hist>>

WkEnterFound ==
    /\ wk.pc = "enter"
    /\ CanEnter(Inside)
    /\ HasHash(ns, Hash)
    /\ wk' = [wk EXCEPT !.pc = "run_read"]
    /\ UNCHANGED <<ns, file, queue, event, gw, ps, sd, submitted, hist>>

\* update_leaderboard_status(namespace, hash, "RUNNING", ...): read,
WkRunRead ==
    /\ wk.pc = "run_read"
    /\ wk' = [wk EXCEPT !.pc = "run_write", !.lb = ns]
    /\ UNCHANGED <<ns, file, queue, event, gw, ps, sd, submitted, hist>>

\* write back and save; the block is left and the first phase starts its clock.
WkRunWrite ==
    /\ wk.pc = "run_write"
    /\ ns' = SetStatus(wk.lb, Hash, "RUNNING", "Model evaluation in progress")
    /\ file' = ns'
    /\ wk' = [wk EXCEPT !.pc = "call", !.phase = "A", !.elapsed = 0,
                        !.resp = NoResp, !.lb = <<>>]
    /\ UNCHANGED <<queue, event, gw, ps, sd, submitted, hist>>

\* One attempt answers 200: the retry loop is left.
WkCallOk(durations, evals, vibes) ==
    /\ wk.pc = "call"
    /\ \E dur \in durations, e \in evals, v \in vibes :
          wk' = [wk EXCEPT !.pc = "restart_ok",
                           !.elapsed = Clock(@ + dur),
                           !.last = "ok",
                           !.data = IF wk.phase = "A" THEN e ELSE @,
                           !.vibe = IF wk.phase = "B" THEN v.vibe_score ELSE @,
                           !.vibeMissing = IF wk.phase = "B" THEN v.missing ELSE @,
                           !.calledB = (wk.phase = "B") \/ @]
    /\ UNCHANGED <<ns, file, queue, event, gw, ps, sd, submitted, hist>>

\* One attempt fails and no more than 30 s have passed since the first
\* attempt: sleep one second and try again.
WkCallRetry(durations, kinds) ==
    /\ wk.pc = "call"
    /\ \E dur \in durations, kind \in kinds :
          /\ Clock(wk.elapsed + dur) <= Deadline
          /\ wk' = [wk EXCEPT !.elapsed = Clock(Clock(@ + dur) + RetrySleep),
                              !.resp = RespOf(kind, @),
                              !.last = kind,
                              !.calledB = (wk.phase = "B") \/ @]
    /\ UNCHANGED <<ns, file, queue, event, gw, ps, sd, submitted, hist>>

\* One attempt fails more than 30 s after the first attempt.
WkCallDeadline(durations, kinds) ==
    /\ wk.pc = "call"
    /\ \E dur \in durations, kind \in kinds :
          /\ Clock(wk.elapsed + dur) > Deadline
          /\ wk' = [wk EXCEPT !.pc = "fail_read",
                              !.elapsed = Clock(@ + dur),
                              !.resp = RespOf(kind, @),
                              !.last = kind,
                              !.err = ErrorString(wk.phase, RespOf(kind, wk.resp),
                                                  ExcText(kind)),
                              !.calledB = (wk.phase = "B") \/ @]
    /\ UNCHANGED <<ns, file, queue, event, gw, ps, sd, submitted, hist>>

\* update_leaderboard_status(namespace, hash, "FAILED", error_string)
WkFailRead ==
    /\ wk.pc = "fail_read"
    /\ CanEnter(Inside)
    /\ wk' = [wk EXCEPT !.pc = "fail_write", !.lb = ns]
    /\ UNCHANGED <<ns, file, queue, event, gw, ps, sd, submitted, hist>>

WkFailWrite ==
    /\ wk.pc = "fail_write"
    /\ ns' = SetStatus(wk.lb, Hash, "FAILED", wk.err)
    /\ file' = ns'
    /\ wk' = [wk EXCEPT !.pc = "fail_restart", !.lb = <<>>]
    /\ UNCHANGED <<queue, event, gw, ps, sd, submitted, hist>>

\* POST /shutdown to the service that failed, then raise RuntimeError.
WkFailRestart ==
    /\ wk.pc = "fail_restart"
    /\ wk' = [wk EXCEPT !.pc = "cleanup", !.outcome = "raised",
                        !.restartsA = IF wk.phase = "A" THEN @ + 1 ELSE @,
                        !.restartsB = IF wk.phase = "B" THEN @ + 1 ELSE @]
    /\ UNCHANGED <<ns, file, queue, event, gw, ps, sd, submitted, hist>>

\* A worker that restarts a service only after it has failed.
WkRestartOnlyOnFailure ==
    /\ wk.pc = "restart_ok"
    /\ wk' = [wk EXCEPT !.pc = "parse", !.elapsed = 0, !.resp = NoResp,
                        !.last = ""]
    /\ UNCHANGED <<ns, file, queue, event, gw, ps, sd, submitted, hist>>

\* POST /shutdown to the service that answered.
WkRestartOk ==
    /\ wk.pc = "restart_ok"
    /\ wk' = [wk EXCEPT !.pc = "parse", !.elapsed = 0, !.resp = NoResp,
                        !.last = "",
                        !.restartsA = IF wk.phase = "A" THEN @ + 1 ELSE @,
                        !.restartsB = IF wk.phase = "B" THEN @ + 1 ELSE @]
    /\ UNCHANGED <<ns, file, queue, event, gw, ps, sd, submitted, hist>>

\* The body of service A lacks a key (KeyError) or holds a None (float(None)
\* raises TypeError before anything is written).
WkEvalRaise ==
    /\ wk.pc = "parse" /\ wk.phase = "A"
    /\ wk.data.missing \/ HasNone(wk.data)
    /\ wk' = [wk EXCEPT !.pc = "cleanup", !.outcome = "raised"]
    /\ UNCHANGED <<ns, file, queue, event, gw, ps, sd, submitted, hist>>

\* with ... as leaderboard: the three scores and the note on the copy,
WkPartialRead ==
    /\ wk.pc = "parse" /\ wk.phase = "A"
    /\ CanEnter(Inside)
    /\ ~wk.data.missing /\ ~HasNone(wk.data)
    /\ wk' = [wk EXCEPT !.pc = "partial_write",
                        !.lb = SetPartial(ns, Hash, wk.data)]
    /\ UNCHANGED <<ns, file, queue, event, gw, ps, sd, submitted, hist>>

\* namespace.leaderboard = leaderboard and save; the second phase starts its
\* clock.
WkPartialWrite ==
    /\ wk.pc = "partial_write"
    /\ ns' = wk.lb
    /\ file' = ns'
    /\ wk' = [wk EXCEPT !.pc = "call", !.phase = "B", !.elapsed = 0,
                        !.resp = NoResp, !.last = "", !.lb = <<>>]
    /\ UNCHANGED <<queue, event, gw, ps, sd, submitted, hist>>

\* The body of service B lacks vibe_score (KeyError), or the score is None
\* (HTTPException).
WkVibeRaise ==
    /\ wk.pc = "parse" /\ wk.phase = "B"
    /\ wk.vibeMissing \/ wk.vibe.tag = "None"
    /\ wk' = [wk EXCEPT !.pc = "cleanup", !.outcome = "raised"]
    /\ UNCHANGED <<ns, file, queue, event, gw, ps, sd, submitted, hist>>

\* The final update on the copy of the table,
WkFinalRead ==
    /\ wk.pc = "parse" /\ wk.phase = "B"
    /\ CanEnter(Inside)
    /\ ~wk.vibeMissing /\ wk.vibe.tag = "int"
    /\ wk' = [wk EXCEPT !.pc = "final_write",
                        !.lb = SetCompleted(ns, Hash, wk.data, wk.vibe)]
    /\ UNCHANGED <<ns, file, queue, event, gw, ps, sd, submitted, hist>>

\* namespace.leaderboard = leaderboard; the scores are returned.
WkFinalWrite ==
    /\ wk.pc = "final_write"
    /\ ns' = wk.lb
    /\ wk' = [wk EXCEPT !.pc = "cleanup", !.outcome = "returned", !.lb = <<>>]
    /\ UNCHANGED <<file, queue, event, gw, ps, sd, submitted, hist>>

\* The final update raises: the handler calls update_leaderboard_status(
\* request.hash, "FAILED", failure_reason), one argument short, so that
\* namespace.leaderboard is read off a string: AttributeError, nothing written.
WkFinalRaise ==
    /\ wk.pc = "final_write"
    /\ wk' = [wk EXCEPT !.pc = "cleanup", !.outcome = "raised", !.lb = <<>>]
    /\ UNCHANGED <<ns, file, queue, event, gw, ps, sd, submitted, hist>>

\* A worker loop without the except clause: the exception of a job ends it.
WkCleanupUncaught ==
    /\ wk.pc = "cleanup"
    /\ wk' = IF wk.outcome = "raised" THEN [WkIdle EXCEPT !.pc = "exited"] ELSE WkIdle
    /\ UNCHANGED <<ns, file, queue, event, gw, ps, sd, submitted, hist>>

\* except Exception / finally of the worker loop: log, collect, next item.
WkCleanup ==
    /\ wk.pc = "cleanup"
    /\ wk' = WkIdle
    /\ UNCHANGED <<ns, file, queue, event, gw, ps, sd, submitted, hist>>

\* --------------------------------------------------------- persister
\* while not periodic_save_event.is_set(): one tick saves the table as it is
\* and waits for the next tick or the event.
PsTick ==
    /\ ps.pc = "loop" /\ ~event
    /\ CanEnter(Inside)
    /\ file' = ns
    /\ UNCHANGED <<ns, queue, event, gw, wk, ps, sd, submitted, hist>>

PsExit ==
    /\ ps.pc = "loop" /\ event
    /\ ps' = [ps EXCEPT !.pc = "exited"]
    /\ UNCHANGED <<ns, file, queue, event, gw, wk, sd, submitted, hist>>

\* ---------------------------------------------------------- shutdown
Terminal(row) == row.status \in {"COMPLETED", "FAILED"}

TerminalRows(lb) == {lb[i] : i \in {j \in 1..Len(lb) : Terminal(lb[j])}}

\* uvicorn.run returns after the requests in flight have been answered.
SdBegin ==
    /\ sd.pc = "serving"
    /\ \A t \in Threads : gw[t].pc = "idle"
    /\ sd' = [sd EXCEPT !.pc = "empty", !.terminal = TerminalRows(ns),
                        !.deq = hist.deq]
    /\ UNCHANGED <<ns, file, queue, event, gw, wk, ps, submitted, hist>>

\* while not evaluation_queue.empty():
SdEmpty ==
    /\ sd.pc = "empty"
    /\ sd' = [sd EXCEPT !.pc = IF queue = <<>> THEN "prune_read" ELSE "drain"]
    /\ UNCHANGED <<ns, file, queue, event, gw, wk, ps, submitted, hist>>

\*     evaluation_queue.get()   (blocks while the queue is empty)
SdDrain ==
    /\ sd.pc = "drain"
    /\ queue # <<>>
    /\ queue' = Tail(queue)
    /\ sd' = [sd EXCEPT !.pc = "empty"]
    /\ UNCHANGED <<ns, file, event, gw, wk, ps, submitted, hist>>

SdPruneRead ==
    /\ sd.pc = "prune_read"
    /\ CanEnter(Inside)
    /\ sd' = [sd EXCEPT !.pc = "prune_write", !.lb = ns]
    /\ UNCHANGED <<ns, file, queue, event, gw, wk, ps, submitted, hist>>

\* app.state.ns.leaderboard = leaderboard[leaderboard['status'] != 'QUEUED']
SdPruneWrite ==
    /\ sd.pc = "prune_write"
    /\ ns' = DropStatus(sd.lb, "QUEUED")
    /\ file' = ns'
    /\ sd' = [sd EXCEPT !.pc = "set_event", !.lb = <<>>]
    /\ UNCHANGED <<queue, event, gw, wk, ps, submitted, hist>>

SdSetEvent ==
    /\ sd.pc = "set_event"
    /\ event' = TRUE
    /\ sd' = [sd EXCEPT !.pc = "put_term"]
    /\ UNCHANGED <<ns, file, queue, gw, wk, ps, submitted, hist>>

\* evaluation_queue.put(None)
SdPutTerm ==
    /\ sd.pc = "put_term"
    /\ queue' = Append(queue, TERM)
    /\ sd' = [sd EXCEPT !.pc = "join_worker"]
    /\ UNCHANGED <<ns, file, event, gw, wk, ps, submitted, hist>>

SdJoinWorker ==
    /\ sd.pc = "join_worker"
    /\ wk.pc = "exited"
    /\ sd' = [sd EXCEPT !.pc = "join_saver"]
    /\ UNCHANGED <<ns, file, queue, event, gw, wk, ps, submitted, hist>>

SdJoinSaver ==
    /\ sd.pc = "join_saver"
    /\ ps.pc = "exited"
    /\ sd' = [sd EXCEPT !.pc = "last_read"]
    /\ UNCHANGED <<ns, file, queue, event, gw, wk, ps, submitted, hist>>

SdLastRead ==
    /\ sd.pc = "last_read"
    /\ CanEnter(Inside)
    /\ sd' = [sd EXCEPT !.pc = "last_write", !.lb = ns]
    /\ UNCHANGED <<ns, file, queue, event, gw, wk, ps, submitted, hist>>

\* app.state.ns.leaderboard = leaderboard[leaderboard['status'] != 'RUNNING']
SdLastWrite ==
    /\ sd.pc = "last_write"
    /\ ns' = DropStatus(sd.lb, "RUNNING")
    /\ file' = ns'
    /\ sd' = [sd EXCEPT !.pc = "stopped", !.lb = <<>>]
    /\ UNCHANGED <<queue, event, gw, wk, ps, submitted, hist>>

\* ----------------------------------------------------------- startup
\* The column sets a leaderboard file found at startup may have.
FileColumns == SUBSET (Schema \cup {"extra"})

\* The main process before anything is started, with or without a file.
InitStartup ==
    /\ ns = <<>> /\ file = <<>> /\ queue = <<>> /\ event = FALSE
    /\ gw = [t \in Threads |-> GwIdle]
    /\ wk = WkIdle
    /\ ps = [pc |-> "loop"]
    /\ submitted = 0
    /\ hist = [enq |-> <<>>, deq |-> 0, ins |-> <<>>]
    /\ \E exists \in BOOLEAN, cols \in FileColumns :
          /\ ~exists => cols = {}
          /\ sd = [pc |-> "boot", lb |-> <<>>, terminal |-> {}, deq |-> 0,
                   exists |-> exists, columns |-> cols]

\* if not os.path.exists(leaderboard_file): an empty file with the schema.
MainCreate ==
    /\ sd.pc = "boot" /\ ~sd.exists
    /\ sd' = [sd EXCEPT !.pc = "start", !.exists = TRUE, !.columns = Schema]
    /\ UNCHANGED <<ns, file, queue, event, gw, wk, ps, submitted, hist>>

\* else: with ThreadSafeLeaderboardManager(...): get_leaderboard reads the file
\* with parse_dates=['timestamp'], which raises when that column is not there.
MainLoad ==
    /\ sd.pc = "boot" /\ sd.exists
    /\ sd' = [sd EXCEPT !.pc = IF "timestamp" \in sd.columns
                                THEN "check" ELSE "crashed"]
    /\ UNCHANGED <<ns, file, queue, event, gw, wk, ps, submitted, hist>>

\* if not all(col in leaderboard.columns for col in columns): sys.exit(1)
MainSchemaExit ==
    /\ sd.pc = "check"
    /\ ~(\A col \in Schema : col \in sd.columns)
    /\ sd' = [sd EXCEPT !.pc = "exit1"]
    /\ UNCHANGED <<ns, file, queue, event, gw, wk, ps, submitted, hist>>

MainSchemaOk ==
    /\ sd.pc = "check"
    /\ \A col \in Schema : col \in sd.columns
    /\ sd' = [sd EXCEPT !.pc = "start"]
    /\ UNCHANGED <<ns, file, queue, event, gw, wk, ps, submitted, hist>>

\* The persister and the worker are started, uvicorn.run serves.
MainStart ==
    /\ sd.pc = "start"
    /\ sd' = [sd EXCEPT !.pc = "serving"]
    /\ UNCHANGED <<ns, file, queue, event, gw, wk, ps, submitted, hist>>

\* ------------------------------------------------------ specification
Gateway(requests, limit, repos, sizes) ==
    \E t \in Threads :
        \/ \E r \in requests :
              SubmitNotNumeric(t, r, limit) \/ SubmitMismatch(t, r, limit) \/ SubmitVerified(t, r, limit)
        \/ GwEnter(t) \/ GwLookupFound(t) \/ GwLookupAbsent(t)
        \/ GwInsert(t)
        \/ GwAdmitPass(t, repos, sizes) \/ GwAdmitFail(t, repos, sizes)
        \/ GwAdmitRaise(t, repos, sizes)
        \/ GwFailRead(t) \/ GwFailWrite(t) \/ GwFailReturn(t)
        \/ GwPut(t) \/ GwReturn(t) \/ GwDone(t)

Worker(durations, kinds, evals, vibes) ==
    \/ WkGetJob \/ WkGetTerm \/ WkEnterMissing \/ WkEnterFound
    \/ WkRunRead \/ WkRunWrite
    \/ WkCallOk(durations, evals, vibes)
    \/ WkCallRetry(durations, kinds) \/ WkCallDeadline(durations, kinds)
    \/ WkFailRead \/ WkFailWrite \/ WkFailRestart
    \/ WkRestartOk \/ WkEvalRaise \/ WkPartialRead \/ WkPartialWrite
    \/ WkVibeRaise \/ WkFinalRead \/ WkFinalWrite
    \/ WkFinalRaise \/ WkCleanup

Persister == PsTick \/ PsExit

Shutdown ==
    \/ SdBegin \/ SdEmpty \/ SdDrain \/ SdPruneRead \/ SdPruneWrite
    \/ SdSetEvent \/ SdPutTerm \/ SdJoinWorker \/ SdJoinSaver
    \/ SdLastRead \/ SdLastWrite

\* The whole program: every request, the repository lookups that decide each
\* admission check either way, scoring calls that take the full deadline.
Next ==
    \/ Gateway(Requests, MaxSubmits, CoarseRepoSizes, CoarseModelSizes)
    \/ Worker(SlowCalls, {"exc"}, CoarseEvalBodies, CoarseVibeBodies)
    \/ Persister
    \/ Shutdown

Spec == Init /\ [][Next]_vars

\* The request threads alone, with one request more: callers that send the
\* two well-formed requests, every admission check passing.
Passing == {Bytes(MIN_REPO_SIZE, 0)}
PassingSizes == {Bytes(4 * MAX_MODEL_SIZE, 0)}
WellFormed == {Req(<<"1">>, "m1", "chatml"), Req(<<"2">>, "m2", "chatml")}

NextDedup ==
    \E t \in Threads :
        \/ \E r \in WellFormed : SubmitVerified(t, r, MaxSubmits + 1)
        \/ GwEnter(t) \/ GwLookupFound(t) \/ GwLookupAbsent(t) \/ GwInsert(t)
        \/ GwAdmitPass(t, Passing, PassingSizes)
        \/ GwPut(t) \/ GwReturn(t) \/ GwDone(t)

SpecDedup == Init /\ [][NextDedup]_vars

\* One job and the worker, with scoring calls of every length and every kind
\* of answer.
NextRetry ==
    \/ \E r \in {Req(<<"1">>, "m1", "chatml")} : SubmitVerified(1, r, 1)
    \/ GwEnter(1) \/ GwLookupAbsent(1) \/ GwInsert(1)
    \/ GwAdmitPass(1, Passing, PassingSizes)
    \/ GwPut(1) \/ GwReturn(1) \/ GwDone(1)
    \/ WkGetJob \/ WkEnterFound \/ WkRunRead \/ WkRunWrite
    \/ WkCallOk(CallDurations, EvalBodies, VibeBodies)
    \/ WkCallRetry(CallDurations, FailKinds)
    \/ WkCallDeadline(CallDurations, FailKinds)
    \/ WkFailRead \/ WkFailWrite \/ WkFailRestart
    \/ WkRestartOk \/ WkEvalRaise \/ WkPartialRead \/ WkPartialWrite
    \/ WkVibeRaise \/ WkFinalRead \/ WkFinalWrite \/ WkFinalRaise
    \/ WkCleanup

SpecRetry == Init /\ [][NextRetry]_vars

\* The whole program with the worker process
\* scheduled fairly: callers that send well-formed requests, every admission
\* check passing.
WorkerLoop == Worker(SlowCalls, {"exc"}, CoarseEvalBodies, CoarseVibeBodies)

NextLoop ==
    \/ \E t \in Threads :
          \/ \E r \in WellFormed : SubmitVerified(t, r, MaxSubmits)
          \/ GwEnter(t) \/ GwLookupFound(t) \/ GwLookupAbsent(t) \/ GwInsert(t)
          \/ GwAdmitPass(t, Passing, PassingSizes)
          \/ GwPut(t) \/ GwReturn(t) \/ GwDone(t)
    \/ WorkerLoop
    \/ Persister
    \/ Shutdown

SpecLoop == Init /\ [][NextLoop]_vars /\ WF_vars(WorkerLoop)

\* The request threads alone, with model sizes on both sides of the bound:
\* 4 * MAX_MODEL_SIZE bytes less one, that size and up to five bytes more, and
\* a repository without size.
BoundarySizes ==
    {Bytes(4 * MAX_MODEL_SIZE - 1, MiB - 1), NoneV}
      \cup {Bytes(4 * MAX_MODEL_SIZE, b) : b \in 0..5}

NextSize ==
    \E t \in Threads :
        \/ \E r \in WellFormed : SubmitVerified(t, r, MaxSubmits)
        \/ GwEnter(t) \/ GwLookupFound(t) \/ GwLookupAbsent(t) \/ GwInsert(t)
        \/ GwAdmitPass(t, Passing, BoundarySizes)
        \/ GwAdmitFail(t, Passing, BoundarySizes)
        \/ GwFailRead(t) \/ GwFailWrite(t) \/ GwFailReturn(t)
        \/ GwPut(t) \/ GwReturn(t) \/ GwDone(t)

SpecSize == Init /\ [][NextSize]_vars

\* The startup of the main process alone, for every file it may find.
NextStartup ==
    MainCreate \/ MainLoad \/ MainSchemaExit \/ MainSchemaOk \/ MainStart

SpecStartup == InitStartup /\ [][NextStartup]_vars

\* ------------------------------------------------------------- claims
Rows(lb) == {lb[i] : i \in 1..Len(lb)}
WithStatus(lb, status) == {i \in 1..Len(lb) : lb[i].status = status}

\* C1: in every reachable state at most one row of the leaderboard has status
\* RUNNING.
C1_AtMostOneRunning == Cardinality(WithStatus(ns, "RUNNING")) <= 1

\* C2: the leaderboard never holds two rows with the same hash, however the
\* submit calls for that hash interleave.
C2_OneRowPerHash ==
    \A i, j \in 1..Len(ns) : ns[i].hash = ns[j].hash => i = j

\* C3: a hash is put on the evaluation queue at most once, because a call that
\* finds a row for its hash changes nothing and enqueues nothing.
C3_EnqueuedAtMostOnce ==
    \A i, j \in 1..Len(hist.enq) : hist.enq[i] = hist.enq[j] => i = j

CompetitionIds == {"d1"}

\* The hash of a row is the fingerprint of the identity the row stores.
RowFingerprintOK(row) ==
    /\ IsNumeric(row.hash)
    /\ \E c \in CompetitionIds :
          IntOf(row.hash) = regenerate_hash(row.repo_namespace, row.repo_name,
                                            row.chat_template_type, c)

Verified(r) == IsNumeric(r.hash) /\ HashMatches(r)

C4_RowsMatch ==
    /\ \A row \in Rows(ns) \cup Rows(file) : RowFingerprintOK(row)
    /\ \A i \in 1..Len(queue) : queue[i] = TERM \/ Verified(queue[i])

C4_Reject ==
    \A t \in Threads :
        (gw[t].pc = "idle" /\ gw'[t].pc # "idle") =>
            IF Verified(gw'[t].req)
            THEN gw'[t].pc = "enter"
            ELSE /\ gw'[t].pc = "responded"
                 /\ gw'[t].result.kind \in {"http400", "http500"}
                 /\ UNCHANGED <<ns, file, queue>>

\* C4: a submit call whose hash is not the fingerprint of its identity fields
\* fails and leaves the leaderboard, the file and the queue as they are, and
\* every row (and every queued job) carries the fingerprint of its identity.
C4_MismatchRejected == []C4_RowsMatch /\ [][C4_Reject]_vars

\* A mismatching call has been rejected while the leaderboard holds a row.
C4_Witness ==
    \E t \in Threads :
        /\ gw[t].pc = "responded" /\ gw[t].result.kind = "http400"
        /\ ~HashMatches(gw[t].req)
        /\ Len(ns) > 0

Core(row) ==
    <<row.hash, row.status, row.model_size_score, row.qualitative_score,
      row.latency_score, row.vibe_score, row.total_score>>

\* C5: a row that is COMPLETED or FAILED is still there after every step, with
\* the same status and the same five scores.
C5_TerminalImmutable ==
    [][\A row \in TerminalRows(ns) :
          \E next \in Rows(ns') : Core(next) = Core(row)]_vars

\* C6: at no instant are two contexts inside a
\* `with ThreadSafeLeaderboardManager(...)` block.
C6_MutualExclusion == Cardinality(Inside) <= 1

\* C7: a call whose fresh row failed an admission check answers with a status
\* payload that says FAILED, its hash is not on the queue and none of its rows
\* is RUNNING.
C7_AdmissionFailure ==
    \A t \in Threads :
        (gw[t].pc = "responded" /\ gw[t].note # "") =>
            /\ gw[t].result.kind = "payload"
            /\ gw[t].result.status = "FAILED"
            /\ \A i \in 1..Len(hist.enq) : hist.enq[i] # gw[t].req.hash
            /\ \A i \in 1..Len(ns) :
                  ns[i].hash = gw[t].req.hash => ns[i].status # "RUNNING"

\* C8: once the shutdown code has run to its end, the saved file holds no
\* QUEUED and no RUNNING row, and every row that was COMPLETED or FAILED when
\* the shutdown began is in it, unchanged.
C8_ShutdownSnapshot ==
    sd.pc = "stopped" =>
        /\ \A row \in Rows(file) : row.status \notin {"QUEUED", "RUNNING"}
        /\ sd.terminal \subseteq Rows(file)

Failing == wk.pc \in {"fail_read", "fail_write", "fail_restart"}

\* The retry loop of a phase: it is left for the failure path only by a
\* failure seen more than 30 s after the first attempt, a failure seen earlier
\* is followed by one second of sleep and another attempt, and a 200 answer
\* leaves it for the rest of the job whenever it comes.
C9_Loop ==
    /\ (wk.pc = "call" /\ wk'.pc = "fail_read") => wk'.elapsed > Deadline
    /\ (wk.pc = "call" /\ wk'.pc = "call" /\ wk' # wk) =>
          /\ wk'.elapsed - RetrySleep <= Deadline
          /\ wk'.elapsed - RetrySleep >= wk.elapsed
    /\ (wk.pc = "call" /\ wk'.last = "ok") => wk'.pc = "restart_ok"
    /\ (wk.pc = "fail_write" /\ wk'.pc = "fail_restart") =>
          /\ HasHash(ns', Hash)
          /\ \A i \in 1..Len(ns') :
                ns'[i].hash = Hash =>
                    ns'[i].status = "FAILED" /\ ns'[i].notes = wk.err
    /\ (wk.pc = "final_write" /\ wk'.outcome = "returned") =>
          /\ HasHash(ns', Hash)
          /\ \A i \in 1..Len(ns') :
                ns'[i].hash = Hash => ns'[i].status = "COMPLETED"

\* After the failure path: one restart signal to the service that failed, and
\* service B never called when it was service A.
C9_Stop ==
    (wk.pc = "cleanup" /\ wk.err # "") =>
        /\ wk.outcome = "raised"
        /\ wk.restartsA = 1
        /\ wk.phase = "A" => (wk.restartsB = 0 /\ ~wk.calledB)
        /\ wk.phase = "B" => wk.restartsB = 1

\* The note of the failure is the error text of the last attempt.
C9_LastError ==
    Failing =>
        wk.err = ErrorString(wk.phase, RespOf(wk.last, NoResp), ExcText(wk.last))

\* The control flow of the retry loop, apart from the text of the note.
C9_RetryControl == []C9_Stop /\ [][C9_Loop]_vars

\* C9: bounded retry of a scoring phase: fixed 1 s interval, success up to the
\* deadline lets the job proceed, a failure seen after more than 30 s stops the
\* loop, fails the row with the last error text as note, sends one restart
\* signal and ends the job.
C9_BoundedRetry == [](C9_Stop /\ C9_LastError) /\ [][C9_Loop]_vars

C10_Loop ==
    /\ (wk'.pc = "exited" /\ wk.pc # "exited") =>
          (wk.pc = "get" /\ queue # <<>> /\ Head(queue) = TERM)
    /\ (wk.pc = "cleanup" /\ wk' # wk) => wk' = WkIdle
    /\ (wk.pc \notin {"get", "cleanup", "exited"} /\ wk' # wk) =>
          wk'.pc \notin {"get", "exited"}

\* C10: the worker leaves its loop only when it takes the terminate value off
\* the queue; a job that raises ends in the handler of the loop, from which
\* the worker returns to the queue, and a worker waiting at a queue that
\* holds an item takes it (unless the shutdown code drains it first).
C10_WorkerSurvives ==
    /\ [][C10_Loop]_vars
    /\ (wk.pc = "cleanup") ~> (wk.pc = "get")
    /\ (wk.pc = "get" /\ queue # <<>>) ~> (wk.pc # "get" \/ queue = <<>>)

\* A job has raised and the queue holds another job.
C10_Witness ==
    /\ wk.pc = "cleanup" /\ wk.outcome = "raised"
    /\ queue # <<>> /\ Head(queue) # TERM
\* C11: a submit call that passed every admission check puts its job on the
\* queue and answers with the status payload of its row saying QUEUED,
\* whatever the worker does in between.
C11_QueuedReturned ==
    [][\A t \in Threads :
          /\ (gw[t].pc = "put" /\ gw'[t] # gw[t]) =>
                queue' = Append(queue, gw[t].req)
          /\ (gw[t].pc = "return" /\ gw'[t].pc = "responded") =>
                /\ gw'[t].result.kind = "payload"
                /\ gw'[t].result.status = "QUEUED"]_vars
\* C12: no row is ever created for a request whose chat_template_type is not
\* supported, and when such a call has been answered the leaderboard holds no
\* row with its hash.
C12_UnsupportedTemplateNoRow ==
    /\ \A row \in Rows(ns) : row.chat_template_type \in chat_template_mappings
    /\ \A t \in Threads :
          (/\ gw[t].pc = "responded"
           /\ gw[t].req.chat_template_type \notin chat_template_mappings) =>
              ~HasHash(ns, gw[t].req.hash)
StatusChanges ==
    {<<"QUEUED", "RUNNING">>, <<"RUNNING", "COMPLETED">>, <<"RUNNING", "FAILED">>}

\* C13: whenever a row of the leaderboard changes its status or one of its
\* scores, the step is a step of the evaluation worker and the status goes
\* from QUEUED to RUNNING, from RUNNING to COMPLETED or from RUNNING to FAILED;
\* a request thread only ever adds a QUEUED row.
C13_WriteOwnership ==
    [][\A old \in Rows(ns), new \in Rows(ns') :
          (old.hash = new.hash /\ Core(old) # Core(new)) =>
              /\ wk' # wk
              /\ old.status # new.status =>
                    <<old.status, new.status>> \in StatusChanges]_vars
\* The worker has set the row of hash h RUNNING for the job it holds.
Started(h) ==
    /\ wk.req.hash = h
    /\ wk.pc \notin {"get", "enter", "run_read", "run_write", "exited"}

\* C14: jobs are evaluated in the order in which their rows were inserted: a
\* call that has passed admission and is about to put its job never finds
\* that the worker has already started a job whose row was inserted later.
C14_SubmissionOrder ==
    \A t \in Threads :
        gw[t].pc = "put" =>
            \A i, j \in 1..Len(hist.ins) :
                (i < j /\ hist.ins[i] = gw[t].req.hash
                       /\ hist.ins[j] # gw[t].req.hash) =>
                    ~Started(hist.ins[j])
\* C15: with a leaderboard file at startup, the program starts only when the
\* columns of the file are exactly the schema, and exits before anything is
\* started whenever a schema column is missing or another column is there.
C15_SchemaExact ==
    /\ sd.pc \in {"start", "serving"} => sd.columns = Schema
    /\ sd.pc \in {"exit1", "crashed"} => sd.columns # Schema
\* The server has stopped: no request thread is left to put a job.
ShutdownBegun == sd.pc \notin {"boot", "check", "start", "serving"}

\* C16: the shutdown code always runs to its end.  It cannot do so from a
\* state in which it waits in evaluation_queue.get() of its drain loop while
\* the queue is empty, since nobody puts a job once the server has stopped:
\* no such state is ever reached, however the test of empty() and the get()
\* interleave with the get() of the worker.
C16_ShutdownNeverBlocked ==
    ~(ShutdownBegun /\ sd.pc = "drain" /\ queue = <<>>)
\* C17: once the shutdown code has started to drain the queue, the worker
\* sets a row RUNNING or calls a scoring service only for the job it had
\* taken off the queue before the drain started, never for a job that was
\* still on the queue at that moment.
C17_DrainedNeverProcessed ==
    (ShutdownBegun /\ Started(Hash)) => hist.deq = sd.deq
\* C18: when the final update of a job raises, the handler leaves the row of
\* the job FAILED with the failure text as note, and the worker goes on to
\* the end of its loop body.
C18_FinalWriteFailure ==
    [][(wk.pc = "final_write" /\ wk'.outcome = "raised") =>
          /\ wk'.pc = "cleanup"
          /\ HasHash(ns', Hash)
          /\ \A i \in 1..Len(ns') :
                ns'[i].hash = Hash =>
                    ns'[i].status = "FAILED" /\ ns'[i].notes # ""]_vars
\* C19: when both scoring phases have answered and one of the four scores is
\* None, the job ends with its row FAILED (not COMPLETED, not RUNNING).
C19_NoneScoreFails ==
    [][(/\ wk.pc = "parse" /\ wk.phase = "B" /\ ~wk.vibeMissing
        /\ (wk.vibe.tag = "None" \/ HasNone(wk.data))
        /\ wk'.pc = "cleanup") =>
          /\ HasHash(ns', Hash)
          /\ \A i \in 1..Len(ns') :
                ns'[i].hash = Hash => ns'[i].status = "FAILED"]_vars
\* size <= v MiB + b bytes
AtMost(size, v, b) == size.v < v \/ (size.v = v /\ size.b <= b)

\* The outcome of the model-size check for a call whose earlier checks passed
\* and whose model has a size: the job goes to the queue when the size is at
\* most 4 * MAX_MODEL_SIZE + slack bytes; otherwise the call takes the failure
\* path, writes FAILED with the note on the rows of its hash and puts nothing.
SizeBound(slack) ==
    \A t \in Threads :
        /\ (gw[t].pc = "admit" /\ gw'[t] # gw[t] /\ gw'[t].size.tag = "int") =>
              IF AtMost(gw'[t].size, 4 * MAX_MODEL_SIZE, slack)
              THEN gw'[t].pc = "put"
              ELSE /\ gw'[t].pc = "fail_read"
                   /\ gw'[t].note = "Model size is too large"
        /\ (gw[t].pc = "put" /\ gw'[t] # gw[t]) =>
              queue' = Append(queue, gw[t].req)
        /\ (gw[t].note # "" /\ gw'[t] # gw[t]) => queue' = queue
        /\ (gw[t].pc = "fail_write" /\ gw'[t] # gw[t]) =>
              \A i \in 1..Len(ns') :
                  ns'[i].hash = gw[t].req.hash =>
                      ns'[i].status = "FAILED" /\ ns'[i].notes = gw[t].note

\* C20: a fresh submission that passed the earlier checks is enqueued if and
\* only if its size is at most 4 * MAX_MODEL_SIZE bytes; from
\* 4 * MAX_MODEL_SIZE + 1 bytes on the row becomes FAILED and nothing is
\* enqueued.
C20_SizeBoundExact == [][SizeBound(0)]_vars

\* C20, amended: the bound is on the size divided by 4 and rounded down: the
\* submission is enqueued if and only if its size is at most
\* 4 * MAX_MODEL_SIZE + 3 bytes.
C20_SizeBoundFloor == [][SizeBound(3)]_vars

\* A model of 4 * MAX_MODEL_SIZE + 3 bytes has passed the check while a model
\* of one byte more has failed it.
C20_Witness ==
    \E t, u \in Threads :
        /\ gw[t].pc = "put" /\ gw[t].size = Bytes(4 * MAX_MODEL_SIZE, 3)
        /\ gw[u].note = "Model size is too large"
        /\ gw[u].size = Bytes(4 * MAX_MODEL_SIZE, 4)
\* The restart signals sent by the job the worker holds, while it may still
\* call a service and when it has ended.
C21_Counts ==
    /\ (wk.pc = "call" /\ wk.phase = "A") =>
          (wk.restartsA = 0 /\ wk.restartsB = 0 /\ ~wk.calledB)
    /\ (wk.pc = "call" /\ wk.phase = "B") =>
          (wk.restartsA = 1 /\ wk.restartsB = 0)
    /\ wk.pc \in {"cleanup", "get", "exited"} =>
          /\ wk.restartsA = (IF wk.phase \in {"A", "B"} THEN 1 ELSE 0)
          /\ wk.restartsB = (IF wk.calledB THEN 1 ELSE 0)

\* The step that sends a restart signal changes nothing else: the job goes on
\* after a success and ends, with the row as it was written, after a failure.
C21_Signal ==
    /\ (wk.pc = "restart_ok" /\ wk' # wk) =>
          (wk'.pc = "parse" /\ wk'.outcome = wk.outcome /\ ns' = ns)
    /\ (wk.pc = "fail_restart" /\ wk' # wk) =>
          (wk'.pc = "cleanup" /\ wk'.outcome = "raised" /\ ns' = ns)
    /\ (wk.pc = "cleanup" /\ wk' # wk) => wk'.pc = "get"

\* C21: every job sends exactly one restart signal to each scoring service it
\* has called, after its last call to that service (whether that call
\* succeeded or the deadline passed) and before the job ends, hence before the
\* next job calls the service; sending the signal changes nothing of the job.
C21_RestartAfterUse == []C21_Counts /\ [][C21_Signal]_vars

\* The second job of a run has called both services and ends with one restart
\* signal sent to each.
C21_Witness ==
    /\ wk.pc = "cleanup" /\ hist.deq = 2
    /\ wk.calledB /\ wk.restartsA = 1 /\ wk.restartsB = 1

\* A row holds four computed scores, their weighted sum with the weights 6,
\* 82, 6 and 6 hundredths, and no note.
CompletedRowOK(row) ==
    /\ row.notes = ""
    /\ row.model_size_score # Sentinel /\ row.qualitative_score # Sentinel
    /\ row.latency_score # Sentinel /\ row.vibe_score # Sentinel
    /\ 100 * row.total_score =
          6 * row.model_size_score + 82 * row.qualitative_score
            + 6 * row.latency_score + 6 * row.vibe_score

\* C22: in every reachable state every COMPLETED row, in the store and in the
\* file, has the four scores the scoring services returned (none the -1.0
\* sentinel), empty notes and a total_score equal to the weighted sum of the
\* four scores with the weights 6, 82, 6 and 6 hundredths; the scores, the
\* total, the status and the notes appear in one store update, so no state
\* shows a COMPLETED row without them.
C22_CompletedRows ==
    \A row \in Rows(ns) \cup Rows(file) :
        row.status = "COMPLETED" => CompletedRowOK(row)
\* C23: while no shutdown is requested, a job the worker has dequeued never
\* ends with its row still RUNNING or QUEUED: when the per-job protocol is
\* over, whatever the scoring services answered, the job's hash has a row and
\* every row of the hash is COMPLETED or FAILED.
C23_JobEndsTerminal ==
    (wk.pc = "cleanup" /\ sd.pc = "serving") =>
        /\ HasHash(ns, wk.req.hash)
        /\ \A row \in Rows(ns) :
              row.hash = wk.req.hash => row.status \in {"COMPLETED", "FAILED"}
====
